---- MODULE Spec2Model ----
(***************************************************************************)
(* A model of the mix package manager's store and transaction code.       *)
(*                                                                         *)
(* The sources hold two store implementations.  src/src/database.rs is    *)
(* the Database (a Vec of shared Package handles) with its transaction     *)
(* engine Database::handle_operation and the resolver of                   *)
(* src/src/selection.rs.  src/src/package.rs is the PackageList (a Vec of  *)
(* Package values and an `invalidated` flag) driven through the            *)
(* Actionable trait of src/src/action.rs.  A process is built around one   *)
(* of the two; `store_kind` says which.                                    *)
(*                                                                         *)
(* A handle Rc<RefCell<Package>> is modelled as the index of the package   *)
(* in Database.packages; Option::None is 0.                                *)
(***************************************************************************)
EXTENDS Integers, Sequences, FiniteSets, TLC

\* Longest list of package names a request carries.
MaxNames == 2
\* Most packages Database::add_package is let to push.
MaxPackages == 2
\* Largest component of a version compared.
MaxVersion == 1

\* The package names requests are drawn from.
Names == {"bash", "foo"}

VARIABLES
    store_kind,   \* "Database" or "PackageList": the store the process holds
    packages,     \* Database.packages: Seq of [name, state]
    cache,        \* PackageList.cache: Seq of [name, install_state]
    invalidated,  \* PackageList.invalidated
    op,           \* the last call: [kind, some, names, next]
    pre,          \* the store (packages or cache) as the last call found it
    answer,       \* what the confirm callback answered in the last call, "none" if not invoked
    result,       \* what the last call returned
    events,       \* the callbacks and package steps of the last call, in order
    sel,          \* the last packages_from_names result
    file,         \* the store file on disk: [status, bytes]
    selections,   \* the last Selections selection::install returned, if it returned one
    env,          \* the files the last invocation of the program met
    versions      \* the last three versions compared, the newest first

vars ==
    <<store_kind, packages, cache, invalidated, op, pre, answer, result, events, sel, file,
      selections, env, versions>>

\* Lists of names of length at most n.
RECURSIVE NameListsUpTo(_)
NameListsUpTo(n) ==
    IF n = 0 THEN {<<>>}
    ELSE LET shorter == NameListsUpTo(n - 1)
         IN shorter \cup {Append(l, x) : l \in {s \in shorter : Len(s) = n - 1}, x \in Names}

NameLists == NameListsUpTo(MaxNames)

NoSel == [ok |-> TRUE, found |-> <<>>, not_found |-> <<>>]
NoOp == [kind |-> "none", some |-> FALSE, names |-> <<>>, next |-> <<>>]
NoFail == [at |-> 0, step |-> "none"]
\* No Selections was returned.
NoSelections == <<>>
NoEnv == [create |-> "none", archives |-> {}, unreadable |-> {}]

(***************************************************************************)
(* Version                                                                 *)
(***************************************************************************)

Unknown == [variant |-> "Unknown", major |-> 0, minor |-> 0, patch |-> 0]
SemVer(major, minor, patch) ==
    [variant |-> "SemVer", major |-> major, minor |-> minor, patch |-> patch]

Versions ==
    {Unknown} \cup {SemVer(x, y, z) : x \in 0..MaxVersion, y \in 0..MaxVersion,
                                      z \in 0..MaxVersion}

NoVersions == <<Unknown, Unknown, Unknown>>

\* The order of two numbers.
cmp(x, y) == IF x < y THEN "Less" ELSE IF x > y THEN "Greater" ELSE "Equal"

\* Version::cmp taking Unknown for SemVer(0, 0, 0).
Version_cmp_unknown_as_zero(a, b) ==
    IF cmp(a.major, b.major) # "Equal" THEN cmp(a.major, b.major)
    ELSE IF cmp(a.minor, b.minor) # "Equal" THEN cmp(a.minor, b.minor)
    ELSE cmp(a.patch, b.patch)

\* Version::cmp: Unknown before every SemVer, two SemVer by major, then
\* minor, then patch.
Version_cmp(a, b) ==
    IF a.variant = "Unknown" /\ b.variant = "Unknown" THEN "Equal"
    ELSE IF a.variant = "Unknown" THEN "Less"
    ELSE IF b.variant = "Unknown" THEN "Greater"
    ELSE IF cmp(a.major, b.major) # "Equal" THEN cmp(a.major, b.major)
    ELSE IF cmp(a.minor, b.minor) # "Equal" THEN cmp(a.minor, b.minor)
    ELSE cmp(a.patch, b.patch)

Ev(e, p) == [ev |-> e, pkg |-> p]

(***************************************************************************)
(* Database                                                                *)
(***************************************************************************)

\* Database::get_package: the first package with the name, or None (0).
Database_get_package(db, package_name) ==
    IF \E i \in 1..Len(db) : db[i].name = package_name
    THEN CHOOSE i \in 1..Len(db) :
            /\ db[i].name = package_name
            /\ \A j \in 1..(i - 1) : db[j].name # package_name
    ELSE 0

\* Database::add_package: push, whatever the store holds.
Database_add_package(db, package) == Append(db, package)

\* Database::new_empty
Database_new_empty == <<>>

(***************************************************************************)
(* selection                                                               *)
(***************************************************************************)

\* packages_from_names with a not-found list that keeps a name once.
RECURSIVE packages_from_names_loop_dedup(_, _, _, _)
packages_from_names_loop_dedup(package_names, db, packages_found, packages_not_found) ==
    IF package_names = <<>>
    THEN [found |-> packages_found, not_found |-> packages_not_found]
    ELSE LET package == Database_get_package(db, Head(package_names))
         IN IF package # 0
            THEN packages_from_names_loop_dedup(Tail(package_names), db,
                     Append(packages_found, package), packages_not_found)
            ELSE IF \E k \in 1..Len(packages_not_found) :
                       packages_not_found[k] = Head(package_names)
            THEN packages_from_names_loop_dedup(Tail(package_names), db,
                     packages_found, packages_not_found)
            ELSE packages_from_names_loop_dedup(Tail(package_names), db,
                     packages_found, Append(packages_not_found, Head(package_names)))

\* packages_from_names with the found handles pushed at the front.
RECURSIVE packages_from_names_loop_prepend(_, _, _, _)
packages_from_names_loop_prepend(package_names, db, packages_found, packages_not_found) ==
    IF package_names = <<>>
    THEN [found |-> packages_found, not_found |-> packages_not_found]
    ELSE LET package == Database_get_package(db, Head(package_names))
         IN IF package # 0
            THEN packages_from_names_loop_prepend(Tail(package_names), db,
                     <<package>> \o packages_found, packages_not_found)
            ELSE packages_from_names_loop_prepend(Tail(package_names), db,
                     packages_found, Append(packages_not_found, Head(package_names)))

\* The closure of packages_from_names over package_names, with its two
\* accumulators packages_found and packages_not_found.
RECURSIVE packages_from_names_loop(_, _, _, _)
packages_from_names_loop(package_names, db, packages_found, packages_not_found) ==
    IF package_names = <<>>
    THEN [found |-> packages_found, not_found |-> packages_not_found]
    ELSE LET package == Database_get_package(db, Head(package_names))
         IN IF package # 0
            THEN packages_from_names_loop(Tail(package_names), db,
                     Append(packages_found, package), packages_not_found)
            ELSE packages_from_names_loop(Tail(package_names), db,
                     packages_found, Append(packages_not_found, Head(package_names)))

\* selection::packages_from_names: Ok(found) or Err((PackageNotFound(not_found), found)).
packages_from_names(package_names, db) ==
    LET r == packages_from_names_loop(package_names, db, <<>>, <<>>)
    IN IF r.not_found # <<>>
       THEN [ok |-> FALSE, found |-> r.found, not_found |-> r.not_found]
       ELSE [ok |-> TRUE, found |-> r.found, not_found |-> <<>>]

Selections_default == [install |-> <<>>, remove |-> <<>>, upgrade |-> <<>>, downgrade |-> <<>>]

\* The loop of selection::install pushing every package, installed or not.
RECURSIVE selection_install_loop_no_skip(_, _, _)
selection_install_loop_no_skip(found, db, s) ==
    IF found = <<>> THEN s
    ELSE selection_install_loop_no_skip(Tail(found), db,
             [s EXCEPT !.install = Append(@, Head(found))])

\* The loop of selection::install pushing a package to upgrade as well.
RECURSIVE selection_install_loop_upgrade(_, _, _)
selection_install_loop_upgrade(found, db, s) ==
    IF found = <<>> THEN s
    ELSE IF db[Head(found)].state # "Uninstalled"
    THEN selection_install_loop_upgrade(Tail(found), db, s)
    ELSE selection_install_loop_upgrade(Tail(found), db,
             [s EXCEPT !.install = Append(@, Head(found)),
                       !.upgrade = Append(@, Head(found))])

\* for package in packages { if state != Uninstalled { continue; } push }
RECURSIVE selection_install_loop(_, _, _)
selection_install_loop(found, db, s) ==
    IF found = <<>> THEN s
    ELSE IF db[Head(found)].state # "Uninstalled"
    THEN selection_install_loop(Tail(found), db, s)
    ELSE selection_install_loop(Tail(found), db,
             [s EXCEPT !.install = Append(@, Head(found))])

\* selection::install once packages_from_names has returned r: its error,
\* or the Selections of the packages found.
selection_install_of(r, db) ==
    IF ~r.ok THEN [sel |-> r, selections |-> <<>>]
    ELSE [sel |-> r, selections |-> <<selection_install_loop(r.found, db, Selections_default)>>]

\* selection::install
selection_install(package_names, db) ==
    selection_install_of(packages_from_names(package_names, db), db)

\* selection::all_packages: every handle in store order; it always succeeds.
all_packages(db) == [ok |-> TRUE, found |-> [i \in 1..Len(db) |-> i], not_found |-> <<>>]

(***************************************************************************)
(* Package: the methods handle_operation calls on a handle                 *)
(***************************************************************************)

Package_mark_as_manually_installed(package) == [package EXCEPT !.state = "Manual"]
\* Package::install places files; handle_operation drops what it returns.
Package_install(package) == package
Package_remove(package) == [package EXCEPT !.state = "Uninstalled"]
\* Package::update recomputes the version, which the model does not hold.
Package_update(package) == package

(***************************************************************************)
(* Database::handle_operation, one operator per match arm.  Each returns   *)
(* [packages, result, events, answer].                                     *)
(***************************************************************************)

Outcome(db, res, evs, ans) == [packages |-> db, result |-> res, events |-> evs, answer |-> ans]

\* for package in packages { update(..); mark_as_manually_installed(); install(); }
RECURSIVE install_loop(_, _, _)
install_loop(db, targets, evs) ==
    IF targets = <<>> THEN [packages |-> db, events |-> evs]
    ELSE LET p == Head(targets)
             marked == [db EXCEPT ![p] = Package_mark_as_manually_installed(db[p])]
             installed == [marked EXCEPT ![p] = Package_install(marked[p])]
         IN install_loop(installed, Tail(targets),
                evs \o <<Ev("update", p), Ev("mark", p), Ev("install", p)>>)

\* The install arm with before_run called ahead of confirm.
handle_install_before_run_first(db, names, confirm) ==
    LET r == packages_from_names(names, db)
    IN IF ~r.ok THEN Outcome(db, "panic", <<>>, "none")
       ELSE IF confirm = "err"
       THEN Outcome(db, "ConfirmError", <<Ev("before_run", 0), Ev("confirm", 0)>>, "err")
       ELSE IF confirm = "yes"
       THEN LET a == install_loop(db, r.found, <<Ev("before_run", 0), Ev("confirm", 0)>>)
            IN Outcome(a.packages, "Ok", a.events, "yes")
       ELSE Outcome(db, "Ok", <<Ev("before_run", 0), Ev("confirm", 0)>>, "no")

handle_install(db, names, confirm) ==
    LET r == packages_from_names(names, db)
    IN IF ~r.ok THEN Outcome(db, "panic", <<>>, "none")
       ELSE IF confirm = "err" THEN Outcome(db, "ConfirmError", <<Ev("confirm", 0)>>, "err")
       ELSE IF confirm = "yes"
       THEN LET a == install_loop(db, r.found, <<Ev("confirm", 0), Ev("before_run", 0)>>)
            IN Outcome(a.packages, "Ok", a.events, "yes")
       ELSE Outcome(db, "Ok", <<Ev("confirm", 0)>>, "no")

\* for package in packages { update(..); remove(); }
RECURSIVE remove_loop(_, _, _)
remove_loop(db, targets, evs) ==
    IF targets = <<>> THEN [packages |-> db, events |-> evs]
    ELSE LET p == Head(targets)
         IN remove_loop([db EXCEPT ![p] = Package_remove(db[p])], Tail(targets),
                evs \o <<Ev("update", p), Ev("remove", p)>>)

\* The remove arm applying the removal whatever confirm answered.
handle_remove_unconfirmed(db, names, confirm) ==
    LET r == packages_from_names(names, db)
    IN IF ~r.ok THEN Outcome(db, "panic", <<>>, "none")
       ELSE IF confirm = "err" THEN Outcome(db, "ConfirmError", <<Ev("confirm", 0)>>, "err")
       ELSE LET a == remove_loop(db, r.found, <<Ev("confirm", 0), Ev("before_run", 0)>>)
            IN Outcome(a.packages, "Ok", a.events, confirm)

handle_remove(db, names, confirm) ==
    LET r == packages_from_names(names, db)
    IN IF ~r.ok THEN Outcome(db, "panic", <<>>, "none")
       ELSE IF confirm = "err" THEN Outcome(db, "ConfirmError", <<Ev("confirm", 0)>>, "err")
       ELSE IF confirm = "yes"
       THEN LET a == remove_loop(db, r.found, <<Ev("confirm", 0), Ev("before_run", 0)>>)
            IN Outcome(a.packages, "Ok", a.events, "yes")
       ELSE Outcome(db, "Ok", <<Ev("confirm", 0)>>, "no")

\* for package in packages { update(..); update(); }
RECURSIVE update_loop(_, _, _)
update_loop(db, targets, evs) ==
    IF targets = <<>> THEN [packages |-> db, events |-> evs]
    ELSE LET p == Head(targets)
         IN update_loop([db EXCEPT ![p] = Package_update(db[p])], Tail(targets),
                evs \o <<Ev("update", p), Ev("pkg_update", p)>>)

\* The Update arm resolving no names where it is handed none.
handle_update_none_as_empty(db, some, names, confirm) ==
    LET r == packages_from_names(names, db)
    IN IF ~r.ok THEN Outcome(db, IF some THEN "panic" ELSE "unreachable", <<>>, "none")
       ELSE IF confirm = "err" THEN Outcome(db, "ConfirmError", <<Ev("confirm", 0)>>, "err")
       ELSE IF confirm = "yes"
       THEN LET a == update_loop(db, r.found, <<Ev("confirm", 0), Ev("before_run", 0)>>)
            IN Outcome(a.packages, "Ok", a.events, "yes")
       ELSE Outcome(db, "Aborted", <<Ev("confirm", 0)>>, "no")

\* The Update arm of handle_operation: the named packages, or every package.
handle_update(db, some, names, confirm) ==
    LET r == IF some THEN packages_from_names(names, db) ELSE all_packages(db)
    IN IF ~r.ok THEN Outcome(db, IF some THEN "panic" ELSE "unreachable", <<>>, "none")
       ELSE IF confirm = "err" THEN Outcome(db, "ConfirmError", <<Ev("confirm", 0)>>, "err")
       ELSE IF confirm = "yes"
       THEN LET a == update_loop(db, r.found, <<Ev("confirm", 0), Ev("before_run", 0)>>)
            IN Outcome(a.packages, "Ok", a.events, "yes")
       ELSE Outcome(db, "Aborted", <<Ev("confirm", 0)>>, "no")

\* The Fetch loop going on to the next package after a failure.
RECURSIVE fetch_loop_continue(_, _, _, _)
fetch_loop_continue(targets, k, fail, evs) ==
    IF targets = <<>> THEN [result |-> "Ok", events |-> evs]
    ELSE LET p == Head(targets)
         IN IF fail.at = k /\ fail.step = "create"
            THEN [result |-> "IOError",
                  events |-> fetch_loop_continue(Tail(targets), k + 1, fail, evs).events]
            ELSE IF fail.at = k /\ fail.step = "fetch"
            THEN [result |-> "RequestError",
                  events |-> fetch_loop_continue(Tail(targets), k + 1, fail,
                                 evs \o <<Ev("create", p), Ev("update", p)>>).events]
            ELSE fetch_loop_continue(Tail(targets), k + 1, fail,
                     evs \o <<Ev("create", p), Ev("update", p), Ev("fetch", p)>>)

\* for package in packages { File::create(..)?; update(..); fetch(..)?; }
\* fail = [at, step]: the at-th target's File::create or fetch fails (at = 0: none does).
RECURSIVE fetch_loop(_, _, _, _)
fetch_loop(targets, k, fail, evs) ==
    IF targets = <<>> THEN [result |-> "Ok", events |-> evs]
    ELSE LET p == Head(targets)
         IN IF fail.at = k /\ fail.step = "create"
            THEN [result |-> "IOError", events |-> evs]
            ELSE IF fail.at = k /\ fail.step = "fetch"
            THEN [result |-> "RequestError",
                  events |-> evs \o <<Ev("create", p), Ev("update", p)>>]
            ELSE fetch_loop(Tail(targets), k + 1, fail,
                     evs \o <<Ev("create", p), Ev("update", p), Ev("fetch", p)>>)

handle_fetch(db, names, fail) ==
    LET r == packages_from_names(names, db)
    IN IF ~r.ok THEN Outcome(db, "panic", <<>>, "none")
       ELSE LET a == fetch_loop(r.found, 1, fail, <<Ev("before_run", 0)>>)
            IN Outcome(db, a.result, a.events, "none")

\* Operation::List: println! of every package; no callback is called.
handle_list(db) ==
    Outcome(db, "Ok", [i \in 1..Len(db) |-> Ev("print", i)], "none")

\* Operation::Synchronize => todo!()
handle_synchronize(db) == Outcome(db, "panic", <<>>, "none")

handle_operation(db, operation, confirm, fail) ==
    CASE operation.kind = "Install" -> handle_install(db, operation.names, confirm)
      [] operation.kind = "Remove" -> handle_remove(db, operation.names, confirm)
      [] operation.kind = "Synchronize" -> handle_synchronize(db)
      [] operation.kind = "Update" -> handle_update(db, operation.some, operation.names, confirm)
      [] operation.kind = "Fetch" -> handle_fetch(db, operation.names, fail)
      [] operation.kind = "List" -> handle_list(db)

\* The Operation values of src/src/operation.rs over the bounded name lists.
Operations ==
    [kind : {"Install", "Remove", "Fetch", "Update"}, some : {TRUE}, names : NameLists,
     next : {<<>>}]
    \cup [kind : {"Update", "Synchronize", "List"}, some : {FALSE}, names : {<<>>},
          next : {<<>>}]

Fails(operation) ==
    IF operation.kind = "Fetch"
    THEN {NoFail} \cup [at : 1..Len(operation.names), step : {"create", "fetch"}]
    ELSE {NoFail}

Confirms(operation) ==
    IF operation.kind \in {"Install", "Remove", "Update"} THEN {"yes", "no", "err"} ELSE {"yes"}


(***************************************************************************)
(* PackageList                                                             *)
(***************************************************************************)

\* The first names of default_packages, the list PackageList::synchronize adds.
default_packages == <<"bash", "bzip2">>

\* PackageList::get_package / get_mut_package: the first package with the
\* name, or None (0).
PackageList_get_package(list, package_name) ==
    IF \E i \in 1..Len(list) : list[i].name = package_name
    THEN CHOOSE i \in 1..Len(list) :
            /\ list[i].name = package_name
            /\ \A j \in 1..(i - 1) : list[j].name # package_name
    ELSE 0

\* PackageList::all_package_names
all_package_names(list) == [i \in 1..Len(list) |-> list[i].name]

ListOutcome(list, inv, res, evs) ==
    [cache |-> list, invalidated |-> inv, result |-> res, events |-> evs]

\* PackageList::install: a known package is marked ManuallyInstalled, an
\* unknown name is pushed as a new ManuallyInstalled package.
RECURSIVE PackageList_install_loop(_, _)
PackageList_install_loop(list, names) ==
    IF names = <<>> THEN list
    ELSE LET i == PackageList_get_package(list, Head(names))
         IN IF i # 0
            THEN PackageList_install_loop(
                     [list EXCEPT ![i].install_state = "ManuallyInstalled"], Tail(names))
            ELSE PackageList_install_loop(
                     Append(list, [install_state |-> "ManuallyInstalled",
                                   name |-> Head(names)]), Tail(names))

PackageList_install(list, names) ==
    ListOutcome(PackageList_install_loop(list, names), TRUE, "Ok", <<>>)

\* PackageList::remove dropping the record of a removed package.
RECURSIVE PackageList_remove_loop_delete(_, _)
PackageList_remove_loop_delete(list, names) ==
    IF names = <<>> THEN list
    ELSE LET i == PackageList_get_package(list, Head(names))
         IN IF i # 0
            THEN PackageList_remove_loop_delete(
                     SubSeq(list, 1, i - 1) \o SubSeq(list, i + 1, Len(list)), Tail(names))
            ELSE PackageList_remove_loop_delete(list, Tail(names))

\* PackageList::remove: a known package is marked NotInstalled, an unknown
\* name is passed over.
RECURSIVE PackageList_remove_loop(_, _)
PackageList_remove_loop(list, names) ==
    IF names = <<>> THEN list
    ELSE LET i == PackageList_get_package(list, Head(names))
         IN IF i # 0
            THEN PackageList_remove_loop(
                     [list EXCEPT ![i].install_state = "NotInstalled"], Tail(names))
            ELSE PackageList_remove_loop(list, Tail(names))

PackageList_remove(list, names) ==
    ListOutcome(PackageList_remove_loop(list, names), TRUE, "Ok", <<>>)

\* PackageList::synchronize marking the default packages it finds NotInstalled.
RECURSIVE PackageList_synchronize_loop_reset(_, _)
PackageList_synchronize_loop_reset(list, names) ==
    IF names = <<>> THEN list
    ELSE LET i == PackageList_get_package(list, Head(names))
         IN IF i = 0
            THEN PackageList_synchronize_loop_reset(
                     Append(list, [install_state |-> "NotInstalled", name |-> Head(names)]),
                     Tail(names))
            ELSE PackageList_synchronize_loop_reset(
                     [list EXCEPT ![i].install_state = "NotInstalled"], Tail(names))

\* PackageList::synchronize pushing every default package, absent or not.
RECURSIVE PackageList_synchronize_loop_push(_, _)
PackageList_synchronize_loop_push(list, names) ==
    IF names = <<>> THEN list
    ELSE PackageList_synchronize_loop_push(
             Append(list, [install_state |-> "NotInstalled", name |-> Head(names)]),
             Tail(names))

\* PackageList::synchronize: push each absent default package as
\* NotInstalled; _next_action is not read.
RECURSIVE PackageList_synchronize_loop(_, _)
PackageList_synchronize_loop(list, names) ==
    IF names = <<>> THEN list
    ELSE IF PackageList_get_package(list, Head(names)) = 0
         THEN PackageList_synchronize_loop(
                  Append(list, [install_state |-> "NotInstalled", name |-> Head(names)]),
                  Tail(names))
         ELSE PackageList_synchronize_loop(list, Tail(names))

PackageList_synchronize(list, next_action) ==
    ListOutcome(PackageList_synchronize_loop(list, default_packages), TRUE, "Ok", <<>>)

\* PackageList::update: PackageNotFound at the first unknown name, else
\* "Updating" is printed for every package; no package is changed.
PackageList_update(list, some, names) ==
    LET package_names == IF some THEN names ELSE all_package_names(list)
    IN IF \E k \in 1..Len(package_names) :
             PackageList_get_package(list, package_names[k]) = 0
       THEN ListOutcome(list, TRUE, "PackageNotFound", <<>>)
       ELSE ListOutcome(list, TRUE, "Ok",
                [k \in 1..Len(package_names) |-> Ev("pkg_update", k)])

\* PackageList::fetch: a name whose file exists is skipped; File::create or
\* write_all of the fail.at-th name fails (fail.at = 0: none does).
RECURSIVE PackageList_fetch_loop(_, _, _, _, _)
PackageList_fetch_loop(names, k, exists, fail, evs) ==
    IF names = <<>> THEN [result |-> "Ok", events |-> evs]
    ELSE IF Head(names) \in exists
         THEN PackageList_fetch_loop(Tail(names), k + 1, exists, fail,
                  Append(evs, Ev("skip", k)))
         ELSE IF fail.at = k
         THEN [result |-> "IOError", events |-> evs]
         ELSE PackageList_fetch_loop(Tail(names), k + 1, exists, fail,
                  Append(evs, Ev("create", k)))

PackageList_fetch(list, inv, names, exists, fail) ==
    LET a == PackageList_fetch_loop(names, 1, exists, fail, <<>>)
    IN ListOutcome(list, inv, a.result, a.events)

\* PackageList::list
PackageList_list(list, inv) ==
    ListOutcome(list, inv, "Ok", [i \in 1..Len(list) |-> Ev("print", i)])

\* Action::execute: the method of the executor the action names.
execute(action, list, inv, exists, fail) ==
    CASE action.kind = "Install" -> PackageList_install(list, action.names)
      [] action.kind = "Remove" -> PackageList_remove(list, action.names)
      [] action.kind = "Synchronize" -> PackageList_synchronize(list, action.next)
      [] action.kind = "Update" -> PackageList_update(list, action.some, action.names)
      [] action.kind = "Fetch" -> PackageList_fetch(list, inv, action.names, exists, fail)
      [] action.kind = "List" -> PackageList_list(list, inv)

\* Action::new with update dropping the names it is given.
Action_new_update_all(subcommand, some, names) ==
    LET update == [kind |-> "Update", some |-> FALSE, names |-> <<>>, next |-> <<>>]
    IN CASE subcommand = "synchronize" /\ ~some ->
              [kind |-> "Synchronize", some |-> FALSE, names |-> <<>>, next |-> <<>>]
         [] subcommand = "update" ->
              [kind |-> "Synchronize", some |-> TRUE, names |-> <<>>, next |-> <<update>>]
         [] subcommand = "list" /\ ~some ->
              [kind |-> "List", some |-> FALSE, names |-> <<>>, next |-> <<>>]
         [] subcommand = "install" /\ some ->
              [kind |-> "Install", some |-> TRUE, names |-> names, next |-> <<>>]
         [] subcommand = "remove" /\ some ->
              [kind |-> "Remove", some |-> TRUE, names |-> names, next |-> <<>>]
         [] subcommand = "fetch" /\ some ->
              [kind |-> "Fetch", some |-> TRUE, names |-> names, next |-> <<>>]

\* Action::new: the action of a subcommand and its (optional) package names.
Action_new(subcommand, some, names) ==
    LET update == [kind |-> "Update", some |-> some, names |-> names, next |-> <<>>]
    IN CASE subcommand = "synchronize" /\ ~some ->
              [kind |-> "Synchronize", some |-> FALSE, names |-> <<>>, next |-> <<>>]
         [] subcommand = "update" ->
              [kind |-> "Synchronize", some |-> TRUE, names |-> <<>>, next |-> <<update>>]
         [] subcommand = "list" /\ ~some ->
              [kind |-> "List", some |-> FALSE, names |-> <<>>, next |-> <<>>]
         [] subcommand = "install" /\ some ->
              [kind |-> "Install", some |-> TRUE, names |-> names, next |-> <<>>]
         [] subcommand = "remove" /\ some ->
              [kind |-> "Remove", some |-> TRUE, names |-> names, next |-> <<>>]
         [] subcommand = "fetch" /\ some ->
              [kind |-> "Fetch", some |-> TRUE, names |-> names, next |-> <<>>]

\* The Action values the executor is handed: those Action::new builds, and a
\* bare Update, which an Actionable's caller may also execute.
Actions ==
    {Action_new(c, TRUE, n) : c \in {"install", "remove", "fetch", "update"}, n \in NameLists}
    \cup {Action_new(c, FALSE, <<>>) : c \in {"synchronize", "update", "list"}}
    \cup [kind : {"Update"}, some : {TRUE}, names : NameLists, next : {<<>>}]
    \cup [kind : {"Update"}, some : {FALSE}, names : {<<>>}, next : {<<>>}]

ListFails(action) ==
    IF action.kind = "Fetch" THEN {[at |-> k, step |-> "create"] : k \in 1..Len(action.names)}
                                  \cup {NoFail}
    ELSE {NoFail}

ListExists(action) ==
    IF action.kind = "Fetch" THEN SUBSET {action.names[k] : k \in 1..Len(action.names)}
    ELSE {{}}

(***************************************************************************)
(* The store file.  A file is [status, bytes]: status "absent" (open finds *)
(* nothing), "denied" (open and create fail for another reason) or "ok";   *)
(* bytes is the CBOR item sequence of its contents.                        *)
(***************************************************************************)

Text(s) == [t |-> "text", s |-> s, n |-> 0]
Array(n) == [t |-> "array", s |-> "", n |-> n]
Map(n) == [t |-> "map", s |-> "", n |-> n]

AbsentFile == [status |-> "absent", bytes |-> <<>>]
DeniedFile == [status |-> "denied", bytes |-> <<>>]
\* A file that is there and holds no store.
CorruptFile == [status |-> "ok", bytes |-> <<Text("garbage")>>]
InitialFiles == {AbsentFile, DeniedFile, CorruptFile}

StateNames == {"Uninstalled", "Manual", "Dependency"}
InstallStateNames == {"NotInstalled", "ManuallyInstalled", "DependencyInstalled"}

\* Serialize of Database: a map of its one field, each package a map of its
\* serialized fields in declaration order.
RECURSIVE Database_serialize_packages(_)
Database_serialize_packages(db) ==
    IF db = <<>> THEN <<>>
    ELSE <<Map(2), Text("name"), Text(Head(db).name), Text("state"), Text(Head(db).state)>>
         \o Database_serialize_packages(Tail(db))

Database_serialize(db) ==
    <<Map(1), Text("packages"), Array(Len(db))>> \o Database_serialize_packages(db)

\* Deserialize of Database: the store the items describe, or an error.
Database_deserialize(bytes) ==
    LET at(i, k) == bytes[3 + 5 * (i - 1) + k]
        n == bytes[3].n
        wellformed ==
            /\ Len(bytes) >= 3
            /\ bytes[1] = Map(1)
            /\ bytes[2] = Text("packages")
            /\ bytes[3].t = "array"
            /\ Len(bytes) = 3 + 5 * n
            /\ \A i \in 1..n :
                  /\ at(i, 1) = Map(2)
                  /\ at(i, 2) = Text("name")
                  /\ at(i, 3).t = "text"
                  /\ at(i, 4) = Text("state")
                  /\ at(i, 5).t = "text"
                  /\ at(i, 5).s \in StateNames
    IN IF wellformed
       THEN [result |-> "Ok",
             db |-> [i \in 1..n |-> [name |-> at(i, 3).s, state |-> at(i, 5).s,
                                  local_path |-> <<>>]]]
       ELSE [result |-> "SerializationError", db |-> <<>>]

\* Database::load
Database_load(f) ==
    IF f.status = "absent" THEN [result |-> "FileNotFound", db |-> <<>>]
    ELSE IF f.status # "ok" THEN [result |-> "IOError", db |-> <<>>]
    ELSE Database_deserialize(f.bytes)

\* Database::save: File::create truncates the file, to_writer fills it.  A
\* failed write leaves what was written before it.
Database_save(db, f, write_fails) ==
    IF f.status = "denied" THEN [result |-> "IOError", file |-> f]
    ELSE IF write_fails THEN [result |-> "SerializationError",
                              file |-> [status |-> "ok", bytes |-> <<>>]]
    ELSE [result |-> "Ok", file |-> [status |-> "ok", bytes |-> Database_serialize(db)]]

\* Serialize of PackageList with the field order swapped in each package.
RECURSIVE PackageList_serialize_cache_swapped(_)
PackageList_serialize_cache_swapped(list) ==
    IF list = <<>> THEN <<>>
    ELSE <<Map(2), Text("install_state"), Text(Head(list).name),
           Text("name"), Text(Head(list).install_state)>>
         \o PackageList_serialize_cache_swapped(Tail(list))

\* Serialize of PackageList: filename and cache; invalidated is skipped.
RECURSIVE PackageList_serialize_cache(_)
PackageList_serialize_cache(list) ==
    IF list = <<>> THEN <<>>
    ELSE <<Map(2), Text("install_state"), Text(Head(list).install_state),
           Text("name"), Text(Head(list).name)>>
         \o PackageList_serialize_cache(Tail(list))

PackageList_serialize(list) ==
    <<Map(2), Text("filename"), Text("mix.db"), Text("cache"), Array(Len(list))>>
    \o PackageList_serialize_cache(list)

\* Deserialize of PackageList; the skipped invalidated takes its default.
PackageList_deserialize(bytes) ==
    LET at(i, k) == bytes[5 + 5 * (i - 1) + k]
        n == bytes[5].n
        wellformed ==
            /\ Len(bytes) >= 5
            /\ bytes[1] = Map(2)
            /\ bytes[2] = Text("filename")
            /\ bytes[3].t = "text"
            /\ bytes[4] = Text("cache")
            /\ bytes[5].t = "array"
            /\ Len(bytes) = 5 + 5 * n
            /\ \A i \in 1..n :
                  /\ at(i, 1) = Map(2)
                  /\ at(i, 2) = Text("install_state")
                  /\ at(i, 3).t = "text"
                  /\ at(i, 3).s \in InstallStateNames
                  /\ at(i, 4) = Text("name")
                  /\ at(i, 5).t = "text"
    IN IF wellformed
       THEN [result |-> "Ok", invalidated |-> FALSE,
             cache |-> [i \in 1..n |-> [install_state |-> at(i, 3).s, name |-> at(i, 5).s]]]
       ELSE [result |-> "SerializationError", invalidated |-> FALSE, cache |-> <<>>]

\* <PackageList as PackageDatabase>::load: a missing file is an empty list.
PackageList_load(f) ==
    IF f.status = "absent" THEN [result |-> "Ok", invalidated |-> FALSE, cache |-> <<>>]
    ELSE IF f.status # "ok" THEN [result |-> "IOError", invalidated |-> FALSE, cache |-> <<>>]
    ELSE PackageList_deserialize(f.bytes)

\* <PackageList as PackageDatabase>::save
PackageList_save(list, f, write_fails) ==
    IF f.status = "denied" THEN [result |-> "IOError", file |-> f]
    ELSE IF write_fails THEN [result |-> "SerializationError",
                              file |-> [status |-> "ok", bytes |-> <<>>]]
    ELSE [result |-> "Ok", file |-> [status |-> "ok", bytes |-> PackageList_serialize(list)]]

(***************************************************************************)
(* cli: one invocation of the program, from loading the database to saving *)
(* it.  A target of an operation is [handle, package]: handle is the       *)
(* package's place in the database, 0 for a package read from an archive   *)
(* and not yet in it.                                                      *)
(***************************************************************************)

Target(db, i) == [handle |-> i, package |-> db[i]]
NewTarget(package) == [handle |-> 0, package |-> package]
Targets(db, handles) == [k \in 1..Len(handles) |-> Target(db, handles[k])]
TargetNames(targets) == [k \in 1..Len(targets) |-> targets[k].package.name]

\* Package::from_tarball: the package the archive at the path describes.
Package_from_tarball(path) == [name |-> path, state |-> "Uninstalled", local_path |-> <<>>]

\* Database::import_package appending the package whatever the store holds.
Database_import_package_again(db, package) ==
    [packages |-> Database_add_package(db, [package EXCEPT !.local_path = <<>>]),
     copied |-> package.local_path # <<>>]

\* Database::import_package: a package already present is left alone; any
\* other is appended with its local_path cleared, its archive copied into
\* the cache if it has a local_path.
Database_import_package(db, package) ==
    IF \E i \in 1..Len(db) : db[i].name = package.name
    THEN [packages |-> db, copied |-> FALSE]
    ELSE [packages |-> Database_add_package(db, [package EXCEPT !.local_path = <<>>]),
          copied |-> package.local_path # <<>>]

\* create_new_database: the blank database is saved if the user agrees.
create_new_database(f, create) ==
    IF create = "yes" THEN Database_save(Database_new_empty, f, FALSE)
    ELSE [result |-> "exit", file |-> f]

\* get_package_database once create_new_database has returned c.
database_after_create(c) ==
    IF c.result # "Ok" THEN [result |-> "exit", db |-> <<>>, file |-> c.file]
    ELSE [result |-> "Ok", db |-> Database_load(c.file).db, file |-> c.file]

\* get_package_database once Database::load has returned l.
database_after_load(f, l, create) ==
    IF l.result = "Ok" THEN [result |-> "Ok", db |-> l.db, file |-> f]
    ELSE IF l.result = "FileNotFound" THEN database_after_create(create_new_database(f, create))
    ELSE [result |-> "panic", db |-> <<>>, file |-> f]

\* get_package_database: the loaded database, or the end of the process.
get_package_database(f, create) == database_after_load(f, Database_load(f), create)

Operation(kind, some, targets) ==
    [result |-> "Ok", kind |-> kind, some |-> some, targets |-> targets, reported |-> <<>>]
NoOperation(reported) ==
    [result |-> "PackageNotFound", kind |-> "none", some |-> FALSE, targets |-> <<>>,
     reported |-> reported]
\* get_operation returned another error, or panicked.
FailedOperation(res) ==
    [result |-> res, kind |-> "none", some |-> FALSE, targets |-> <<>>, reported |-> <<>>]

\* The for loop of the Install arm of get_operation: a missing name that
\* opens as a file is read as an archive whose package gets the name as its
\* local_path, one that is no file is truly missing, and any other failure
\* to open it is returned at once.
RECURSIVE read_missing(_, _, _, _, _)
read_missing(missing, archives, unreadable, found, truly_missing) ==
    IF missing = <<>>
    THEN [result |-> "Ok", found |-> found, truly_missing |-> truly_missing]
    ELSE IF Head(missing) \in archives
    THEN read_missing(Tail(missing), archives, unreadable,
                      Append(found, NewTarget([Package_from_tarball(Head(missing))
                                                  EXCEPT !.local_path = <<Head(missing)>>])),
                      truly_missing)
    ELSE IF Head(missing) \in unreadable
    THEN [result |-> "ReadError", found |-> found, truly_missing |-> truly_missing]
    ELSE read_missing(Tail(missing), archives, unreadable, found,
                      Append(truly_missing, Head(missing)))

\* The Install arm of get_operation reporting the names that were found.
install_operation_reports_found(m) ==
    IF m.result # "Ok" THEN FailedOperation(m.result)
    ELSE IF m.truly_missing # <<>> THEN NoOperation(TargetNames(m.found))
    ELSE Operation("Install", TRUE, m.found)

\* The Install arm of get_operation once the missing names are read.
install_operation(m) ==
    IF m.result # "Ok" THEN FailedOperation(m.result)
    ELSE IF m.truly_missing # <<>> THEN NoOperation(m.truly_missing)
    ELSE Operation("Install", TRUE, m.found)

\* get_operation once packages_from_names has returned r.  The Remove,
\* Update and Fetch arms bind the found handles where NotFound carries
\* them and report those.
operation_of_selection(db, command, archives, unreadable, r) ==
    CASE command.kind = "Install" ->
              IF r.ok THEN Operation("Install", TRUE, Targets(db, r.found))
              ELSE install_operation(
                      read_missing(r.not_found, archives, unreadable,
                                   Targets(db, r.found), <<>>))
      [] command.kind \in {"Remove", "Update", "Fetch"} ->
              IF r.ok THEN Operation(command.kind, TRUE, Targets(db, r.found))
              ELSE NoOperation(TargetNames(Targets(db, r.found)))

\* Options::get_operation
get_operation(db, command, archives, unreadable) ==
    CASE command.kind = "Update" /\ command.names = <<>> -> Operation("Update", FALSE, <<>>)
      [] command.kind = "Synchronize" -> Operation("Synchronize", FALSE, <<>>)
      [] command.kind = "List" -> FailedOperation("unreachable")
      [] OTHER -> operation_of_selection(db, command, archives, unreadable,
                                         packages_from_names(command.names, db))

\* The install of Database::handle_operation(operation): import, install,
\* mark, one package at a time; a failed install ends the batch.
RECURSIVE Database_install_loop(_, _, _, _, _)
Database_install_loop(db, targets, k, fail, evs) ==
    IF targets = <<>> THEN [packages |-> db, result |-> "Ok", events |-> evs]
    ELSE LET t == Head(targets)
             imported == Database_import_package(db, t.package)
             i == IF t.handle # 0 THEN t.handle
                  ELSE IF Len(imported.packages) > Len(db) THEN Len(imported.packages) ELSE 0
             evs1 == IF imported.copied THEN Append(evs, Ev("copy", i)) ELSE evs
         IN IF fail.at = k
            THEN [packages |-> imported.packages, result |-> "IOError", events |-> evs1]
            ELSE Database_install_loop(
                    IF i = 0 THEN imported.packages
                    ELSE [imported.packages EXCEPT
                             ![i] = Package_mark_as_manually_installed(Package_install(@))],
                    Tail(targets), k + 1, fail, evs1)

RECURSIVE Database_remove_loop(_, _)
Database_remove_loop(db, targets) ==
    IF targets = <<>> THEN db
    ELSE Database_remove_loop([db EXCEPT ![Head(targets).handle] = Package_remove(@)],
                              Tail(targets))

\* Database::handle_operation(operation), as cli::run calls it.
Database_handle_operation(db, operation, fail) ==
    CASE operation.kind = "Install" ->
           Database_install_loop(db, operation.targets, 1, fail, <<>>)
      [] operation.kind = "Remove" ->
           [packages |-> Database_remove_loop(db, operation.targets), result |-> "Ok",
            events |-> <<>>]
      [] operation.kind = "Update" ->
           [packages |-> [i \in 1..Len(db) |-> Package_update(db[i])], result |-> "Ok",
            events |-> <<>>]
      [] operation.kind = "Fetch" ->
           [packages |-> db,
            result |-> IF fail.at \in 1..Len(operation.targets) THEN "IOError" ELSE "Ok",
            events |-> <<>>]
      [] operation.kind = "Synchronize" -> [packages |-> db, result |-> "Ok", events |-> <<>>]

Asks(kind) == kind \in {"Install", "Remove", "Update"}

RunOutcome(f, db, loaded, res, o, evs) ==
    [file |-> f, packages |-> db, pre |-> loaded, result |-> res, events |-> evs,
     answer |-> IF res = "PromptError" THEN "err"
                ELSE IF res = "Aborted" THEN "no"
                ELSE IF o.result = "Ok" /\ Asks(o.kind) THEN "yes" ELSE "none",
     sel |-> [ok |-> o.result = "Ok",
              found |-> [k \in 1..Len(o.targets) |-> o.targets[k].handle],
              not_found |-> o.reported]]

\* run from database.save on: s is what the save returned.
run_saved(g, o, h, s) ==
    RunOutcome(s.file, h.packages, g.db, IF s.result = "Ok" THEN "Ok" ELSE "SaveError", o,
               h.events)

\* run from the return of handle_operation on, saving the database before
\* it looks at what handle_operation returned.
run_applied_save_first(g, o, h, e) ==
    IF h.result # "Ok"
    THEN RunOutcome(Database_save(h.packages, g.file, e.write_fails).file,
                    h.packages, g.db, h.result, o, h.events)
    ELSE run_saved(g, o, h, Database_save(h.packages, g.file, e.write_fails))

\* run from the return of handle_operation on: database.handle_operation(..)?
\* and then database.save(..)?.
run_applied(g, o, h, e) ==
    IF h.result # "Ok" THEN RunOutcome(g.file, h.packages, g.db, h.result, o, h.events)
    ELSE run_saved(g, o, h, Database_save(h.packages, g.file, e.write_fails))

\* run from the return of get_operation on: the prompt, then handle_operation.
run_resolved(g, o, e) ==
    IF o.result # "Ok" THEN RunOutcome(g.file, g.db, g.db, o.result, o, <<>>)
    ELSE IF Asks(o.kind) /\ e.confirm = "err"
    THEN RunOutcome(g.file, g.db, g.db, "PromptError", o, <<>>)
    ELSE IF Asks(o.kind) /\ e.confirm = "no"
    THEN RunOutcome(g.file, g.db, g.db, "Aborted", o, <<>>)
    ELSE run_applied(g, o, Database_handle_operation(g.db, o, e.fail), e)

\* run from the return of get_package_database on, without the early
\* handling of List.
run_loaded_list_late(g, command, e) ==
    IF g.result # "Ok"
    THEN RunOutcome(g.file, g.db, g.db, g.result, NoOperation(<<>>), <<>>)
    ELSE run_resolved(g, get_operation(g.db, command, e.archives, e.unreadable), e)

\* run from the return of get_package_database on: List prints every
\* package and returns, any other subcommand goes on to get_operation.
run_loaded(g, command, e) ==
    IF g.result # "Ok"
    THEN RunOutcome(g.file, g.db, g.db, g.result, NoOperation(<<>>), <<>>)
    ELSE IF command.kind = "List"
    THEN RunOutcome(g.file, g.db, g.db, "Ok", Operation("List", FALSE, <<>>),
                    [k \in 1..Len(all_packages(g.db).found) |->
                        Ev("print", all_packages(g.db).found[k])])
    ELSE run_resolved(g, get_operation(g.db, command, e.archives, e.unreadable), e)

\* cli::run
run(f, command, e) == run_loaded(get_package_database(f, e.create), command, e)

\* The command lines: a subcommand and its targets.
Commands ==
    [kind : {"Install", "Remove", "Update", "Fetch"}, names : NameLists]
    \cup [kind : {"Synchronize", "List"}, names : {<<>>}]

\* What the invocation meets: the answers to its prompts, the target paths
\* that open as archives and those that exist and do not open, the package
\* whose install or fetch fails, and whether the write of the save fails.
\* What the invocation cannot come to consult is not drawn: the path of a name the
\* database holds, a prompt or a failure after the database failed to load,
\* a failure after a declined prompt or an earlier failure.
Environments(f, command) ==
    LET l == Database_load(f)
        loads == l.result \in {"Ok", "FileNotFound"}
        paths == IF command.kind = "Install" /\ loads
                 THEN {command.names[k] : k \in 1..Len(command.names)}
                      \ {l.db[i].name : i \in 1..Len(l.db)}
                 ELSE {}
    IN {e \in [create : IF f.status = "absent" THEN {"yes", "no"} ELSE {"none"},
               archives : SUBSET paths,
               unreadable : SUBSET paths,
               confirm : IF Asks(command.kind) /\ loads THEN {"yes", "no", "err"}
                         ELSE {"none"},
               fail : IF command.kind \in {"Install", "Fetch"} /\ loads
                      THEN {NoFail} \cup {[at |-> k, step |-> "install"] :
                                             k \in 1..Len(command.names)}
                      ELSE {NoFail},
               write_fails : IF command.kind # "List" /\ loads THEN BOOLEAN ELSE {FALSE}] :
          /\ e.archives \cap e.unreadable = {}
          /\ e.confirm \in {"no", "err"} => e.fail = NoFail
          /\ (e.confirm \in {"no", "err"} \/ e.fail # NoFail) => ~e.write_fails}

(***************************************************************************)
(* Actions on the Database                                                 *)
(***************************************************************************)

Init ==
    /\ store_kind \in {"Database", "PackageList"}
    /\ packages = Database_new_empty
    /\ cache = <<>>
    /\ invalidated = FALSE
    /\ op = NoOp
    /\ pre = <<>>
    /\ answer = "none"
    /\ result = "none"
    /\ events = <<>>
    /\ sel = NoSel
    /\ file = AbsentFile
    /\ selections = NoSelections
    /\ env = NoEnv
    /\ versions = NoVersions

AddPackage ==
    /\ store_kind = "Database"
    /\ Len(packages) < MaxPackages
    /\ \E n \in Names :
          /\ packages' = Database_add_package(packages,
                                [name |-> n, state |-> "Uninstalled", local_path |-> <<>>])
          /\ op' = [kind |-> "add_package", some |-> TRUE, names |-> <<n>>, next |-> <<>>]
    /\ pre' = packages
    /\ answer' = "none"
    /\ result' = "Ok"
    /\ events' = <<>>
    /\ sel' = NoSel
    /\ selections' = NoSelections
    /\ UNCHANGED <<env, versions, store_kind, cache, invalidated, file>>

PackagesFromNames ==
    /\ store_kind = "Database"
    /\ \E names \in NameLists :
          /\ sel' = packages_from_names(names, packages)
          /\ op' = [kind |-> "packages_from_names", some |-> TRUE, names |-> names,
                    next |-> <<>>]
          /\ result' = IF sel'.ok THEN "Ok" ELSE "PackageNotFound"
    /\ pre' = packages
    /\ answer' = "none"
    /\ events' = <<>>
    /\ selections' = NoSelections
    /\ UNCHANGED <<env, versions, store_kind, packages, cache, invalidated, file>>

SelectionInstall ==
    /\ store_kind = "Database"
    /\ \E names \in NameLists :
       \E r \in {selection_install(names, packages)} :
          /\ selections' = r.selections
          /\ sel' = r.sel
          /\ result' = IF r.sel.ok THEN "Ok" ELSE "PackageNotFound"
          /\ op' = [kind |-> "selection_install", some |-> TRUE, names |-> names,
                    next |-> <<>>]
    /\ pre' = packages
    /\ answer' = "none"
    /\ events' = <<>>
    /\ UNCHANGED <<env, versions, store_kind, packages, cache, invalidated, file>>

HandleOperation ==
    /\ store_kind = "Database"
    /\ \E operation \in Operations :
       \E confirm \in Confirms(operation), fail \in Fails(operation) :
          LET out == handle_operation(packages, operation, confirm, fail)
          IN /\ packages' = out.packages
             /\ result' = out.result
             /\ events' = out.events
             /\ answer' = out.answer
             /\ op' = operation
    /\ pre' = packages
    /\ sel' = NoSel
    /\ selections' = NoSelections
    /\ UNCHANGED <<env, versions, store_kind, cache, invalidated, file>>

(***************************************************************************)
(* Actions on the PackageList                                              *)
(***************************************************************************)

Execute ==
    /\ store_kind = "PackageList"
    /\ \E action \in Actions :
       \E exists \in ListExists(action), fail \in ListFails(action) :
          LET out == execute(action, cache, invalidated, exists, fail)
          IN /\ cache' = out.cache
             /\ invalidated' = out.invalidated
             /\ result' = out.result
             /\ events' = out.events
             /\ op' = action
    /\ pre' = cache
    /\ answer' = "none"
    /\ sel' = NoSel
    /\ selections' = NoSelections
    /\ UNCHANGED <<env, versions, store_kind, packages, file>>

Next == AddPackage \/ PackagesFromNames \/ SelectionInstall \/ HandleOperation \/ Execute

Spec == Init /\ [][Next]_vars

(***************************************************************************)
(* The store and its file: invocations of the program on a Database file,  *)
(* and a PackageList loaded, changed one package at a time, and saved.     *)
(***************************************************************************)

FileInit ==
    /\ store_kind \in {"Database", "PackageList"}
    /\ packages = Database_new_empty
    /\ cache = <<>>
    /\ invalidated = FALSE
    /\ op = NoOp
    /\ pre = <<>>
    /\ answer = "none"
    /\ result = "none"
    /\ events = <<>>
    /\ sel = NoSel
    /\ file \in InitialFiles
    /\ selections = NoSelections
    /\ env = NoEnv
    /\ versions = NoVersions

Call(kind) == [kind |-> kind, some |-> FALSE, names |-> <<>>, next |-> <<>>]

Run ==
    /\ store_kind = "Database"
    /\ \E command \in Commands :
       \E env_ \in Environments(file, command) :
          \E out \in {run(file, command, env_)} :
             /\ file' = out.file
             /\ packages' = out.packages
             /\ pre' = out.pre
             /\ result' = out.result
             /\ answer' = out.answer
             /\ sel' = out.sel
             /\ events' = out.events
             /\ env' = [create |-> env_.create, archives |-> env_.archives,
                        unreadable |-> env_.unreadable]
             /\ op' = [kind |-> "run", some |-> TRUE, names |-> command.names,
                       next |-> <<[Call(command.kind) EXCEPT !.names = command.names]>>]
    /\ UNCHANGED <<selections, versions, store_kind, cache, invalidated>>

Load ==
    /\ store_kind = "Database"
    /\ LET l == Database_load(file)
       IN /\ packages' = IF l.result = "Ok" THEN l.db ELSE packages
          /\ result' = l.result
    /\ op' = Call("load")
    /\ pre' = packages
    /\ answer' = "none"
    /\ events' = <<>>
    /\ sel' = NoSel
    /\ env' = NoEnv
    /\ UNCHANGED <<selections, versions, store_kind, cache, invalidated, file>>

Save ==
    /\ store_kind = "Database"
    /\ \E write_fails \in BOOLEAN :
          LET s == Database_save(packages, file, write_fails)
          IN /\ file' = s.file
             /\ result' = s.result
    /\ op' = Call("save")
    /\ pre' = packages
    /\ answer' = "none"
    /\ events' = <<>>
    /\ sel' = NoSel
    /\ env' = NoEnv
    /\ UNCHANGED <<selections, versions, store_kind, packages, cache, invalidated>>

ListLoad ==
    /\ store_kind = "PackageList"
    /\ LET l == PackageList_load(file)
       IN /\ cache' = IF l.result = "Ok" THEN l.cache ELSE cache
          /\ invalidated' = IF l.result = "Ok" THEN l.invalidated ELSE invalidated
          /\ result' = l.result
    /\ op' = Call("load")
    /\ pre' = cache
    /\ answer' = "none"
    /\ events' = <<>>
    /\ sel' = NoSel
    /\ env' = NoEnv
    /\ UNCHANGED <<selections, versions, store_kind, packages, file>>

ListSave ==
    /\ store_kind = "PackageList"
    /\ \E write_fails \in BOOLEAN :
          LET s == PackageList_save(cache, file, write_fails)
          IN /\ file' = s.file
             /\ result' = s.result
    /\ op' = Call("save")
    /\ pre' = cache
    /\ answer' = "none"
    /\ events' = <<>>
    /\ sel' = NoSel
    /\ env' = NoEnv
    /\ UNCHANGED <<selections, versions, store_kind, packages, cache, invalidated>>

\* The actions that change one package, and synchronize.
OneActions ==
    {a \in Actions : a.kind \in {"Install", "Remove"} /\ Len(a.names) = 1}
    \cup {a \in Actions : a.kind = "Synchronize" /\ a.next = <<>>}

ExecuteOne ==
    /\ store_kind = "PackageList"
    /\ \E action \in OneActions :
          LET out == execute(action, cache, invalidated, {}, NoFail)
          IN /\ cache' = out.cache
             /\ invalidated' = out.invalidated
             /\ result' = out.result
             /\ events' = out.events
             /\ op' = action
    /\ pre' = cache
    /\ answer' = "none"
    /\ sel' = NoSel
    /\ env' = NoEnv
    /\ UNCHANGED <<selections, versions, store_kind, packages, file>>

FileNext == Run \/ Load \/ Save \/ ListLoad \/ ListSave \/ ExecuteOne

FileSpec == FileInit /\ [][FileNext]_vars

(***************************************************************************)
(* Versions compared                                                       *)
(***************************************************************************)

VersionInit ==
    /\ store_kind = "Database"
    /\ packages = Database_new_empty
    /\ cache = <<>>
    /\ invalidated = FALSE
    /\ op = NoOp
    /\ pre = <<>>
    /\ answer = "none"
    /\ result = "none"
    /\ events = <<>>
    /\ sel = NoSel
    /\ file = AbsentFile
    /\ selections = NoSelections
    /\ env = NoEnv
    /\ versions = NoVersions

\* A version is compared with the one compared last.
Compare ==
    /\ \E v \in Versions :
          /\ versions' = <<v, versions[1], versions[2]>>
          /\ result' = Version_cmp(v, versions[1])
    /\ op' = Call("cmp")
    /\ UNCHANGED <<store_kind, packages, cache, invalidated, pre, answer, events, sel, file,
                   selections, env>>

VersionNext == Compare

VersionSpec == VersionInit /\ [][VersionNext]_vars

(***************************************************************************)
(* Properties                                                              *)
(***************************************************************************)

\* The store the process holds.
Store == IF store_kind = "Database" THEN packages ELSE cache

Resolves(db, n) == \E i \in 1..Len(db) : db[i].name = n

\* Some requested name of the last call named no package of the store.
Unresolved == op.some /\ \E k \in 1..Len(op.names) : ~Resolves(pre, op.names[k])

OperationKinds == {"Install", "Remove", "Synchronize", "Update", "Fetch", "List"}
IsTransaction == store_kind = "Database" /\ op.kind \in OperationKinds
IsPackagesFromNames == op.kind = "packages_from_names"

ResolvedNames == SelectSeq(op.names, LAMBDA n : Resolves(pre, n))
UnresolvedNames == SelectSeq(op.names, LAMBDA n : ~Resolves(pre, n))

\* C1: packages_from_names succeeds exactly when every name resolves; when it
\* does not, the not-found list is the unresolved input names in input order
\* with their multiplicity, and the found list holds one handle for each
\* resolved input name and no other.
C1_PartialFailurePartition ==
    IsPackagesFromNames =>
        /\ sel.ok <=> (\A k \in 1..Len(op.names) : Resolves(pre, op.names[k]))
        /\ sel.not_found = UnresolvedNames
        /\ Len(sel.found) = Len(ResolvedNames)
        /\ {pre[sel.found[i]].name : i \in 1..Len(sel.found)}
              = {ResolvedNames[i] : i \in 1..Len(ResolvedNames)}
        /\ result = (IF sel.ok THEN "Ok" ELSE "PackageNotFound")

C1_Witness ==
    /\ IsPackagesFromNames
    /\ ~sel.ok
    /\ Len(sel.found) >= 1
    /\ Len(sel.not_found) >= 1

\* C2: the i-th handle packages_from_names returns is the package named by
\* the i-th resolvable input name (the first of the store with that name),
\* also when names repeat.
C2_HandlesInInputOrder ==
    IsPackagesFromNames =>
        \A i \in 1..Len(sel.found) :
            /\ i <= Len(ResolvedNames)
            /\ sel.found[i] \in 1..Len(pre)
            /\ pre[sel.found[i]].name = ResolvedNames[i]
            /\ \A j \in 1..(sel.found[i] - 1) : pre[j].name # ResolvedNames[i]

C2_Witness ==
    /\ IsPackagesFromNames
    /\ Len(sel.found) = 2
    /\ sel.found[1] > sel.found[2]

\* C3: no two packages of the store share a name.
C3_NoSharedNames ==
    \A i, j \in 1..Len(Store) : i # j => Store[i].name # Store[j].name

\* C4: a remove keeps every record of the store, with its name, in place,
\* and leaves each package it removed uninstalled.
C4_RemoveKeepsRecords ==
    op.kind = "Remove" =>
        /\ Len(Store) = Len(pre)
        /\ \A i \in 1..Len(pre) : Store[i].name = pre[i].name
        /\ store_kind = "PackageList" =>
              \A k \in 1..Len(op.names) :
                 LET i == PackageList_get_package(pre, op.names[k])
                 IN i # 0 => cache[i].install_state = "NotInstalled"
        /\ (store_kind = "Database" /\ result = "Ok" /\ answer = "yes") =>
              \A k \in 1..Len(op.names) :
                 LET i == Database_get_package(pre, op.names[k])
                 IN i # 0 => packages[i].state = "Uninstalled"

C4_Witness ==
    /\ store_kind = "PackageList"
    /\ op.kind = "Remove"
    /\ Len(cache) = 2
    /\ \E i \in 1..Len(pre) :
          /\ pre[i].install_state = "ManuallyInstalled"
          /\ cache[i].install_state = "NotInstalled"

\* C5: a remove or update request with a name that does not resolve is
\* aborted: it reports an error and leaves every package as it was.
C5_MissAbortsRequest ==
    (op.kind \in {"Remove", "Update"} /\ Unresolved) =>
        /\ result # "Ok"
        /\ Store = pre

\* C6: a name that does not resolve during Database::handle_operation comes
\* back to the caller as the error value PackageNotFound.
C6_MissReturnsPackageNotFound ==
    (IsTransaction /\ op.kind \in {"Install", "Remove", "Update", "Fetch"} /\ Unresolved) =>
        result = "PackageNotFound"

\* C7: a transaction whose confirmation answers no changes no package and
\* calls neither before_run nor the per-package callback.
C7_DeclineChangesNothing ==
    (IsTransaction /\ op.kind \in {"Install", "Remove", "Update"} /\ answer = "no") =>
        /\ packages = pre
        /\ \A k \in 1..Len(events) : events[k].ev = "confirm"

C7_Witness ==
    /\ IsTransaction
    /\ op.kind = "Remove"
    /\ answer = "no"
    /\ Len(op.names) >= 1
    /\ \E i \in 1..Len(pre) :
          /\ pre[i].name = op.names[1]
          /\ pre[i].state = "Manual"

\* C8: a declined install, remove or update ends with the Aborted error.
C8_DeclineReturnsAborted ==
    (IsTransaction /\ op.kind \in {"Install", "Remove", "Update"} /\ answer = "no") =>
        result = "Aborted"

ConfirmCount == Len(SelectSeq(events, LAMBDA e : e.ev = "confirm"))

Processed ==
    IF op.some THEN [k \in 1..Len(op.names) |-> Database_get_package(pre, op.names[k])]
    ELSE [i \in 1..Len(pre) |-> i]

ProgressCalls == SelectSeq(events, LAMBDA e : e.ev = "update")

\* C10: in the apply phase the per-package callback is called once for each
\* package processed, in processing order, and ahead of any other step on
\* that package.
C10_ProgressOncePerPackage ==
    (IsTransaction /\ result = "Ok" /\ (answer = "yes" \/ op.kind \in {"Fetch", "List"})) =>
        /\ [k \in 1..Len(ProgressCalls) |-> ProgressCalls[k].pkg] = Processed
        /\ \A k \in 1..Len(events) :
              (events[k].pkg # 0 /\ events[k].ev # "update") =>
                  \E j \in 1..(k - 1) :
                      events[j].ev = "update" /\ events[j].pkg = events[k].pkg

\* C11: in an install transaction each package's install step has run
\* before the package is marked installed, package by package in selection
\* order.
C11_InstallBeforeMark ==
    (IsTransaction /\ op.kind = "Install" /\ result = "Ok" /\ answer = "yes") =>
        /\ [k \in 1..Len(SelectSeq(events, LAMBDA e : e.ev = "mark")) |->
                SelectSeq(events, LAMBDA e : e.ev = "mark")[k].pkg] = Processed
        /\ \A k \in 1..Len(events) :
              events[k].ev = "mark" =>
                  /\ k > 1
                  /\ events[k - 1].ev = "install"
                  /\ events[k - 1].pkg = events[k].pkg

EventsOf(e) == SelectSeq(events, LAMBDA x : x.ev = e)
PkgsOf(e) == [k \in 1..Len(EventsOf(e)) |-> EventsOf(e)[k].pkg]

\* C12: a failure at the k-th package of a fetch batch ends the batch: the
\* error is returned, the packages before the k-th have been fetched and keep
\* their files, and no step is taken on a package after the k-th.  A batch
\* without a failure fetches every package.
C12_FailureStopsBatch ==
    /\ (IsTransaction /\ op.kind = "Fetch" /\ ~Unresolved) =>
          LET done == Len(EventsOf("fetch"))
              begun == Len(EventsOf("create"))
          IN /\ result \in {"Ok", "IOError", "RequestError"}
             /\ PkgsOf("fetch") = SubSeq(Processed, 1, done)
             /\ PkgsOf("create") = SubSeq(Processed, 1, begun)
             /\ result = "Ok" <=> done = Len(Processed)
             /\ result = "IOError" => (begun = done /\ done < Len(Processed))
             /\ result = "RequestError" => (begun = done + 1 /\ begun <= Len(Processed))
             /\ packages = pre
    /\ (store_kind = "PackageList" /\ op.kind = "Fetch") =>
          /\ result \in {"Ok", "IOError"}
          /\ \A k \in 1..Len(events) : events[k].pkg = k
          /\ result = "Ok" <=> Len(events) = Len(op.names)
          /\ cache = pre

C12_Witness ==
    /\ IsTransaction
    /\ op.kind = "Fetch"
    /\ result = "RequestError"
    /\ Len(op.names) = 2
    /\ Len(EventsOf("fetch")) = 1
    /\ Len(EventsOf("create")) = 2

\* C16: executing Synchronize(Some(next)) brings the list in sync and then
\* runs next: the wrapped Update is executed on the synchronized list, so
\* the call prints and returns what that update prints and returns.
C16_SynchronizeRunsNextAction ==
    (store_kind = "PackageList" /\ op.kind = "Synchronize" /\ op.next # <<>>) =>
        LET synced == PackageList_synchronize_loop(pre, default_packages)
            next == PackageList_update(synced, op.next[1].some, op.next[1].names)
        IN /\ cache = synced
           /\ result = next.result
           /\ events = next.events

\* C17: needs_save() is true exactly when the list differs from the list as
\* loaded (the empty list PackageList::load builds, the initial state).
C17_NeedsSaveIffChanged ==
    store_kind = "PackageList" => (invalidated <=> cache # <<>>)

IsManual(p) ==
    IF store_kind = "Database" THEN p.state = "Manual"
    ELSE p.install_state = "ManuallyInstalled"

\* C18: after an install that returns Ok every named package is in the
\* store exactly once and is manually installed.
C18_InstalledOnceAndManual ==
    (op.kind = "Install" /\ result = "Ok") =>
        \A k \in 1..Len(op.names) :
            /\ Cardinality({i \in 1..Len(Store) : Store[i].name = op.names[k]}) = 1
            /\ \A i \in 1..Len(Store) : Store[i].name = op.names[k] => IsManual(Store[i])

\* C19: a manually installed package stays manually installed through every
\* call but a remove that names it.
C19_ManualLeftOnlyByRemove ==
    /\ Len(Store) >= Len(pre)
    /\ \A i \in 1..Len(pre) :
          (IsManual(pre[i]) /\ ~IsManual(Store[i])) =>
              /\ op.kind = "Remove"
              /\ \E k \in 1..Len(op.names) : op.names[k] = pre[i].name

C19_Witness ==
    /\ store_kind = "PackageList"
    /\ op.kind = "Synchronize"
    /\ \E i \in 1..Len(pre) :
          /\ pre[i].name = "bash"
          /\ IsManual(pre[i])
          /\ IsManual(cache[i])

\* C20: a record enters the store only by synchronization, uninstalled, or
\* as a package parsed from an archive (handed to add_package); no other
\* call adds a record.
C20_RecordsOnlyFromSyncOrArchive ==
    /\ op.kind \notin {"Synchronize", "add_package"} => Len(Store) = Len(pre)
    /\ (store_kind = "PackageList" /\ op.kind = "Synchronize") =>
          \A i \in (Len(pre) + 1)..Len(cache) : cache[i].install_state = "NotInstalled"

(***************************************************************************)
(* The store file                                                          *)
(***************************************************************************)

IsRun == op.kind = "run"
IsLoad == op.kind = "load"
IsSave == op.kind = "save"

\* C13: an invocation that loaded the database writes the store file only
\* in the save that follows a handle_operation that returned Ok: if it ends
\* any other way (a failed resolution, a declined or failed prompt, an error
\* of handle_operation) the file still decodes to the database as it was
\* loaded, whatever handle_operation did to the database in memory; if it
\* ends with Ok the file decodes to the database in memory.
C13_FileWrittenOnlyBySave ==
    (IsRun /\ result \notin {"exit", "panic"}) =>
        /\ result \notin {"Ok", "SaveError"} =>
              Database_load(file) = [result |-> "Ok", db |-> pre]
        /\ result = "Ok" => Database_load(file) = [result |-> "Ok", db |-> packages]

\* handle_operation failed after it changed the database in memory, and the
\* file still holds the database as loaded.
C13_Witness ==
    /\ IsRun
    /\ result = "IOError"
    /\ packages # pre
    /\ Database_load(file) = [result |-> "Ok", db |-> pre]

\* C14: a load of a path where no file exists returns FileNotFound, a load
\* of a file that cannot be opened for another reason returns IOError, a
\* load of a file that does not decode returns SerializationError; none of
\* them returns a store.
C14_LoadErrors ==
    IsLoad =>
        /\ file.status = "absent" => result = "FileNotFound"
        /\ file.status = "denied" => result = "IOError"
        /\ (file.status = "ok" /\ file.bytes \in {<<>>, CorruptFile.bytes}) =>
              result = "SerializationError"

IsSelectionInstall == op.kind = "selection_install"
Handles(list) == {list[k] : k \in 1..Len(list)}

\* C21: in every Selections that selection::install returns no package is
\* in more than one of the lists install, remove, upgrade and downgrade.
C21_SelectionListsDisjoint ==
    \A k \in 1..Len(selections) :
       LET s == selections[k]
       IN /\ Handles(s.install) \cap Handles(s.remove) = {}
          /\ Handles(s.install) \cap Handles(s.upgrade) = {}
          /\ Handles(s.install) \cap Handles(s.downgrade) = {}
          /\ Handles(s.remove) \cap Handles(s.upgrade) = {}
          /\ Handles(s.remove) \cap Handles(s.downgrade) = {}
          /\ Handles(s.upgrade) \cap Handles(s.downgrade) = {}

\* selection::install returned a Selections that holds a package.
C21_Witness ==
    /\ IsSelectionInstall
    /\ selections # NoSelections
    /\ selections[1].install # <<>>

\* C29: selection::install of names that all resolve returns a Selections
\* whose install list is the named packages that are Uninstalled, in the
\* order of the names, and whose other lists are empty; if a name does not
\* resolve it returns the error of packages_from_names and no Selections.
C29_SelectsUninstalledInOrder ==
    IsSelectionInstall =>
        IF Unresolved
        THEN /\ selections = NoSelections
             /\ result = "PackageNotFound"
             /\ sel = [ok |-> FALSE, found |-> sel.found, not_found |-> UnresolvedNames]
        ELSE /\ result = "Ok"
             /\ selections =
                   <<[install |-> SelectSeq(Processed, LAMBDA h : pre[h].state = "Uninstalled"),
                      remove |-> <<>>, upgrade |-> <<>>, downgrade |-> <<>>]>>

\* Of two named packages one was installed and skipped, the other selected.
C29_Witness ==
    /\ IsSelectionInstall
    /\ selections # NoSelections
    /\ Len(op.names) = 2
    /\ op.names[1] # op.names[2]
    /\ Len(selections[1].install) = 1
    /\ \E i \in 1..Len(pre) : pre[i].state = "Manual"

(***************************************************************************)
(* Invocations of the program                                              *)
(***************************************************************************)

\* The subcommand of the last invocation.
RunKind == IF IsRun THEN op.next[1].kind ELSE "none"
\* The last invocation loaded (or created and loaded) the database.
Loaded == IsRun /\ result \notin {"exit", "panic"}
\* The file decodes to the database as the invocation loaded it.
FileAsLoaded == Database_load(file) = [result |-> "Ok", db |-> pre]

\* The requested names that are no package of the database and no file.
TrulyMissing ==
    SelectSeq(op.names, LAMBDA n : /\ ~Resolves(pre, n)
                                   /\ n \notin env.archives
                                   /\ n \notin env.unreadable)

C23_ReportsNamesNotFound ==
    (Loaded /\ RunKind \in {"Remove", "Update", "Fetch"} /\ result = "PackageNotFound") =>
        sel.not_found = UnresolvedNames


(***************************************************************************)
(* Action::new                                                             *)
(***************************************************************************)

\* The action of a kind with names (Some) or without (None).
ActionOf(kind, some, names, next) ==
    [kind |-> kind, some |-> some, names |-> names, next |-> next]

\* C24: Action::new maps install, remove and fetch with names to Install,
\* Remove and Fetch of the same names in the same order, list without names
\* to List, synchronize without names to Synchronize(None), and update to
\* Synchronize(Some(Update(names))) with the same names, or Update(None)
\* without names; a Synchronize executed with a next action wraps such an
\* Update and holds no names itself.
C24_ActionNewMapsSubcommands ==
    /\ \A names \in NameLists :
          /\ Action_new("install", TRUE, names) = ActionOf("Install", TRUE, names, <<>>)
          /\ Action_new("remove", TRUE, names) = ActionOf("Remove", TRUE, names, <<>>)
          /\ Action_new("fetch", TRUE, names) = ActionOf("Fetch", TRUE, names, <<>>)
          /\ Action_new("update", TRUE, names) =
                ActionOf("Synchronize", TRUE, <<>>, <<ActionOf("Update", TRUE, names, <<>>)>>)
    /\ Action_new("list", FALSE, <<>>) = ActionOf("List", FALSE, <<>>, <<>>)
    /\ Action_new("synchronize", FALSE, <<>>) = ActionOf("Synchronize", FALSE, <<>>, <<>>)
    /\ Action_new("update", FALSE, <<>>) =
          ActionOf("Synchronize", TRUE, <<>>, <<ActionOf("Update", FALSE, <<>>, <<>>)>>)
    /\ (store_kind = "PackageList" /\ op.kind = "Synchronize" /\ op.some) =>
          /\ op.names = <<>>
          /\ op.next[1].kind = "Update"
          /\ op.next[1].next = <<>>
          /\ ~op.next[1].some => op.next[1].names = <<>>

\* The action Action::new built of update and two names was executed.
C24_Witness ==
    /\ store_kind = "PackageList"
    /\ op = Action_new("update", TRUE, <<"foo", "bash">>)
    /\ op.kind = "Synchronize"
    /\ op.next[1].names = <<"foo", "bash">>

(***************************************************************************)
(* Version                                                                 *)
(***************************************************************************)

IsCompare == op.kind = "cmp"

\* Lexicographic order of (major, minor, patch).
LexLess(a, b) ==
    \/ a.major < b.major
    \/ a.major = b.major /\ a.minor < b.minor
    \/ a.major = b.major /\ a.minor = b.minor /\ a.patch < b.patch

\* C25: the comparison of versions is a strict total order: of two versions
\* exactly one is less or they are equal, equal only if they are the same
\* version, and less is transitive; two SemVer compare as their (major,
\* minor, patch) do lexicographically; Unknown is less than every SemVer and
\* equal to Unknown only.
C25_VersionTotalOrder ==
    LET a == versions[1]
        b == versions[2]
        c == versions[3]
    IN /\ IsCompare => result = Version_cmp(a, b)
       /\ Version_cmp(a, b) \in {"Less", "Equal", "Greater"}
       /\ Version_cmp(a, b) = "Equal" <=> a = b
       /\ Version_cmp(a, b) = "Less" <=> Version_cmp(b, a) = "Greater"
       /\ (Version_cmp(a, b) = "Less" /\ Version_cmp(b, c) = "Less") => Version_cmp(a, c) = "Less"
       /\ (a.variant = "SemVer" /\ b.variant = "SemVer") =>
             (Version_cmp(a, b) = "Less" <=> LexLess(a, b))
       /\ (a.variant = "Unknown" /\ b.variant = "SemVer") => Version_cmp(a, b) = "Less"
       /\ (a.variant = "Unknown" /\ Version_cmp(a, b) = "Equal") => b.variant = "Unknown"

\* Unknown was compared with SemVer(0, 0, 0) and found less.
C25_Witness ==
    /\ IsCompare
    /\ versions[1] = Unknown
    /\ versions[2] = SemVer(0, 0, 0)
    /\ result = "Less"

(***************************************************************************)
(* Database::import_package                                                *)
(***************************************************************************)

\* The package read of the archive at a path, as get_operation hands it on.
ArchivePackage(path) == [Package_from_tarball(path) EXCEPT !.local_path = <<path>>]

\* C26: import_package of a package equal to one the store holds adds no
\* package and copies no archive, and a package it has imported carries no
\* local_path: an install appends one package for each new name it imports,
\* copies the archive once for each of them and never for a name the store
\* holds, and importing any archive a second time changes nothing.
C26_ImportIdempotent ==
    /\ (Loaded /\ RunKind = "Install") =>
          /\ Len(packages) >= Len(pre)
          /\ \A i \in 1..Len(pre) : packages[i].name = pre[i].name
          /\ PkgsOf("copy") = [k \in 1..(Len(packages) - Len(pre)) |-> Len(pre) + k]
          /\ \A i \in (Len(pre) + 1)..Len(packages) :
                /\ packages[i].local_path = <<>>
                /\ \A j \in 1..Len(packages) : j # i => packages[j].name # packages[i].name
    /\ \A n \in Names :
          LET first == Database_import_package(packages, ArchivePackage(n))
              second == Database_import_package(first.packages, ArchivePackage(n))
          IN /\ second.packages = first.packages
             /\ ~second.copied
             /\ Len(first.packages) <= Len(packages) + 1
             /\ \A i \in (Len(packages) + 1)..Len(first.packages) :
                   first.packages[i].local_path = <<>>

\* The same archive was named twice and imported and copied once.
C26_Witness ==
    /\ Loaded
    /\ RunKind = "Install"
    /\ result = "Ok"
    /\ Len(op.names) = 2
    /\ op.names[1] = op.names[2]
    /\ op.names[1] \in env.archives
    /\ Len(packages) = Len(pre) + 1
    /\ Len(PkgsOf("copy")) = 1

(***************************************************************************)
(* Update of every package                                                 *)
(***************************************************************************)

IsUpdateAll == op.kind = "Update" /\ ~op.some

IsSynchronize == store_kind = "PackageList" /\ op.kind = "Synchronize"

\* The default package names the list does not hold, in their order.
AbsentDefaults(list) ==
    SelectSeq(default_packages, LAMBDA n : \A i \in 1..Len(list) : list[i].name # n)

\* C28: synchronize keeps every package of the list as it is and where it
\* is, appends each default package name the list does not hold as a
\* NotInstalled package, and a second synchronize changes nothing more.
C28_SynchronizeOnlyAdds ==
    IsSynchronize =>
        /\ result = "Ok"
        /\ Len(cache) = Len(pre) + Len(AbsentDefaults(pre))
        /\ SubSeq(cache, 1, Len(pre)) = pre
        /\ \A k \in 1..Len(AbsentDefaults(pre)) :
              cache[Len(pre) + k] =
                 [install_state |-> "NotInstalled", name |-> AbsentDefaults(pre)[k]]
        /\ PackageList_synchronize(cache, op.next).cache = cache

\* A list that held an installed default package was synchronized and grew.
C28_Witness ==
    /\ IsSynchronize
    /\ Len(pre) >= 1
    /\ pre[1].name = default_packages[1]
    /\ pre[1].install_state = "ManuallyInstalled"
    /\ Len(cache) > Len(pre)

(***************************************************************************)
(* The List subcommand                                                     *)
(***************************************************************************)

\* The file of the blank database create_new_database saves.
BlankFile == Database_save(Database_new_empty, AbsentFile, FALSE).file

\* C30 as stated: a List invocation never comes to the unreachable branch of
\* get_operation, never asks for confirmation and never writes the file.
C30_ListNeverWritesFile ==
    (IsRun /\ RunKind = "List") =>
        /\ result # "unreachable"
        /\ answer = "none"
        /\ env.create # "none" => file = AbsentFile

\* C30: a List invocation never comes to the unreachable branch of
\* get_operation and never asks to confirm an operation; once the database is
\* loaded it prints every package in store order and returns Ok, leaving the
\* database and its file as loaded; the file is written only as the blank
\* database, where there was none and the user agreed to create it.
C30_ListHandledBeforeGetOperation ==
    (IsRun /\ RunKind = "List") =>
        /\ result # "unreachable"
        /\ answer = "none"
        /\ Loaded =>
              /\ result = "Ok"
              /\ packages = pre
              /\ FileAsLoaded
              /\ PkgsOf("print") = [k \in 1..Len(pre) |-> k]
        /\ env.create = "no" => file = AbsentFile
        /\ env.create = "yes" => (file = BlankFile /\ pre = Database_new_empty)

\* A database of two packages was listed.
C30_Witness ==
    /\ IsRun
    /\ RunKind = "List"
    /\ result = "Ok"
    /\ Len(pre) = 2
    /\ Len(events) = 2

====
